---- MODULE Spec2Model ----
(***************************************************************************)
(* A model of validate_mods.py, the validator of the FM Reloaded Trusted   *)
(* Store manifest (mods.json).                                             *)
(*                                                                         *)
(* Python strings are sequences of one-character strings, so that the      *)
(* regular expressions, urlparse, str.lower, str.strip, str.startswith and *)
(* str.endswith of the source are computed and not assumed.  A JSON value  *)
(* is a record [ty, s, n, l, d]: its Python type, and its content as a     *)
(* string (s), a number (n; a bool is the int 1 or 0, as in Python), a     *)
(* list (l) or a dict (d, a function from keys to JSON values).            *)
(* A message is a record [kind, index, field, other] instead of the        *)
(* formatted text: the kind of check that emitted it, the entry index it   *)
(* names, the field it names, and a second index (duplicates).             *)
(***************************************************************************)
EXTENDS Integers, Sequences, FiniteSets, TLC

----------------------------------------------------------------------------
(* Characters and strings *)

UpperLetters == <<"A","B","C","D","E","F","G","H","I","J","K","L","M",
                  "N","O","P","Q","R","S","T","U","V","W","X","Y","Z">>

LowerLetters == <<"a","b","c","d","e","f","g","h","i","j","k","l","m",
                  "n","o","p","q","r","s","t","u","v","w","x","y","z">>

Digits == {"0","1","2","3","4","5","6","7","8","9"}

Letters == {UpperLetters[i] : i \in 1..26} \cup {LowerLetters[i] : i \in 1..26}

Whitespace == {" ", "\t", "\n", "\r"}

\* str.lower() on one character
LowerChar(c) ==
    IF \E i \in 1..26 : UpperLetters[i] = c
    THEN LowerLetters[CHOOSE i \in 1..26 : UpperLetters[i] = c]
    ELSE c

\* str.lower()
Lower(s) == [i \in 1..Len(s) |-> LowerChar(s[i])]

\* str.startswith(p)
StartsWith(s, p) == Len(p) <= Len(s) /\ SubSeq(s, 1, Len(p)) = p

\* str.endswith(p)
EndsWith(s, p) ==
    Len(p) <= Len(s) /\ SubSeq(s, Len(s) - Len(p) + 1, Len(s)) = p

\* str.strip() leaves nothing: every character is whitespace
StripsToEmpty(s) == \A i \in 1..Len(s) : s[i] \in Whitespace

\* index of the first character of s that is in set cs, Len(s)+1 if none
FirstIn(s, cs) ==
    IF \E i \in 1..Len(s) : s[i] \in cs
    THEN CHOOSE i \in 1..Len(s) : s[i] \in cs /\ \A k \in 1..(i-1) : s[k] \notin cs
    ELSE Len(s) + 1

\* str.lstrip() of whitespace
LStrip(s) ==
    LET i == IF \E k \in 1..Len(s) : s[k] \notin Whitespace
             THEN CHOOSE k \in 1..Len(s) :
                    s[k] \notin Whitespace /\ \A m \in 1..(k-1) : s[m] \in Whitespace
             ELSE Len(s) + 1
    IN SubSeq(s, i, Len(s))

\* the regular expression  x+  over a character class
AllIn(s, cs) == Len(s) >= 1 /\ \A i \in 1..Len(s) : s[i] \in cs

\* Python's $ also matches before one trailing newline
DropFinalNewline(s) ==
    IF Len(s) >= 1 /\ s[Len(s)] = "\n" THEN SubSeq(s, 1, Len(s) - 1) ELSE s

----------------------------------------------------------------------------
(* Validation rules: the module constants *)

REQUIRED_FIELDS ==
    <<"name", "version", "type", "author", "description", "homepage", "download">>

VALID_TYPES ==
    { <<"u","i">>,
      <<"b","u","n","d","l","e">>,
      <<"c","a","m","e","r","a">>,
      <<"s","k","i","n","s">>,
      <<"g","r","a","p","h","i","c","s">>,
      <<"t","a","c","t","i","c","s">>,
      <<"d","a","t","a","b","a","s","e">>,
      <<"r","u","l","e","s","e","t">>,
      <<"e","d","i","t","o","r","-","d","a","t","a">>,
      <<"a","u","d","i","o">>,
      <<"m","i","s","c">> }

MAX_DESCRIPTION_LENGTH == 200

DEFAULT_TAG_PREFIX == <<"v">>

GITHUB_RELEASE == <<"g","i","t","h","u","b","_","r","e","l","e","a","s","e">>

DIRECT == <<"d","i","r","e","c","t">>

DOT_ZIP == <<".","z","i","p">>

MODS == <<"m","o","d","s">>

\* the character class [A-Za-z0-9_.-] of GITHUB_REPO_PATTERN
RepoChars == Letters \cup Digits \cup {"_", ".", "-"}

\* urllib.parse.scheme_chars
SchemeChars == Letters \cup Digits \cup {"+", "-", "."}

----------------------------------------------------------------------------
(* JSON values as Python sees them *)

NoFields == [k \in {} |-> 0]

JV(ty, s, n, l, d) == [ty |-> ty, s |-> s, n |-> n, l |-> l, d |-> d]

Null == JV("null", <<>>, 0, <<>>, NoFields)

Str(s) == JV("str", s, 0, <<>>, NoFields)

Num(n) == JV("int", <<>>, n, <<>>, NoFields)

Bool(b) == JV("bool", <<>>, IF b THEN 1 ELSE 0, <<>>, NoFields)

List(l) == JV("list", <<>>, 0, l, NoFields)

Obj(d) == JV("dict", <<>>, 0, <<>>, d)

\* dict.get(key) with the default None
Get(v, key) == IF key \in DOMAIN v.d THEN v.d[key] ELSE Null

\* bool(v)
Truthy(v) ==
    CASE v.ty = "str"  -> v.s # <<>>
      [] v.ty = "int"  -> v.n # 0
      [] v.ty = "bool" -> v.n # 0
      [] v.ty = "list" -> v.l # <<>>
      [] v.ty = "dict" -> DOMAIN v.d # {}
      [] OTHER         -> FALSE

\* v == True / v == False: a bool is an int in Python, so 1 == True and 0 == False
EqualsBool(v, b) == v.ty \in {"bool", "int"} /\ v.n = (IF b THEN 1 ELSE 0)

\* hash(v) raises TypeError for a list and for a dict
Hashable(v) == v.ty \notin {"list", "dict"}

\* len(v) is defined for str, list and dict
Sized(v) == v.ty \in {"str", "list", "dict"}

PyLen(v) ==
    CASE v.ty = "str"  -> Len(v.s)
      [] v.ty = "list" -> Len(v.l)
      [] v.ty = "dict" -> Cardinality(DOMAIN v.d)
      [] OTHER         -> 0

\* decimal digits of a natural number
RECURSIVE Decimal(_)
Decimal(n) ==
    LET ds == <<"0","1","2","3","4","5","6","7","8","9">>
    IN IF n < 10 THEN <<ds[n + 1]>> ELSE Decimal(n \div 10) \o <<ds[(n % 10) + 1]>>

\* str(v).  The repr of a list or dict is cut to its brackets: it is never
\* empty and never ends in ".zip", which is all the source reads of it.
PyStr(v) ==
    CASE v.ty = "str"  -> v.s
      [] v.ty = "int"  -> IF v.n < 0 THEN <<"-">> \o Decimal(-v.n) ELSE Decimal(v.n)
      [] v.ty = "bool" -> IF v.n = 1 THEN <<"T","r","u","e">> ELSE <<"F","a","l","s","e">>
      [] v.ty = "null" -> <<"N","o","n","e">>
      [] v.ty = "list" -> <<"[", "]">>
      [] OTHER         -> <<"{", "}">>

----------------------------------------------------------------------------
(* The strings and values the inputs are built from *)

\* the mark of a key that is left out of an object
Absent == JV("absent", <<>>, 0, <<>>, NoFields)

\* the (key, value) pair of an object, nothing when the value is Absent
Opt(key, v) == IF v = Absent THEN NoFields ELSE (key :> v)

With(obj, key, v) == Obj(Opt(key, v) @@ obj.d)

Without(obj, keys) == Obj([k \in (DOMAIN obj.d) \ keys |-> obj.d[k]])

NAME_A == <<"A">>

NAME_B == <<"B">>

V1 == <<"1",".","0",".","0">>

V2 == <<"2",".","0",".","0">>

URL_OK == <<"h",":","/","/","x">>

URL_BAD == <<"x">>

REPO_OK == <<"o","/","r">>

M_ZIP == <<"M",".","z","i","p">>

M_ZIP_UPPER == <<"M",".","Z","I","P">>

M_RAR == <<"M",".","r","a","r">>

\* a description of n characters
Text(n) == [i \in 1..n |-> "d"]

----------------------------------------------------------------------------
(* Messages and results *)

Msg(kind, index, field, other) ==
    [kind |-> kind, index |-> index, field |-> field, other |-> other]

\* a (errors, warnings) pair a function returns, or the exception it raises
Returns(errors, warnings) == [exc |-> "none", errors |-> errors, warnings |-> warnings]

Raises(exc) == [exc |-> exc, errors |-> <<>>, warnings |-> <<>>]

NoMessages == Returns(<<>>, <<>>)

\* statement a followed by statement b: b runs only when a did not raise
Then(a, b) ==
    IF a.exc # "none" THEN Raises(a.exc)
    ELSE IF b.exc # "none" THEN Raises(b.exc)
    ELSE Returns(a.errors \o b.errors, a.warnings \o b.warnings)

ErrorIf(cond, m) == IF cond THEN Returns(<<m>>, <<>>) ELSE NoMessages

WarningIf(cond, m) == IF cond THEN Returns(<<>>, <<m>>) ELSE NoMessages

----------------------------------------------------------------------------
(* validate_url, validate_version *)

\* urlparse(url).scheme: the characters before the first ":" when they are a
\* letter followed by scheme characters (lower-cased)
UrlScheme(u) ==
    LET i == FirstIn(u, {":"})
    IN IF /\ i <= Len(u)
          /\ i > 1
          /\ u[1] \in Letters
          /\ \A k \in 1..(i-1) : u[k] \in SchemeChars
       THEN Lower(SubSeq(u, 1, i - 1))
       ELSE <<>>

\* urlparse(url).netloc: what follows "//" after the scheme, up to "/", "?" or "#"
UrlNetloc(u) ==
    LET i    == FirstIn(u, {":"})
        rest == IF UrlScheme(u) # <<>> THEN SubSeq(u, i + 1, Len(u)) ELSE u
    IN IF Len(rest) >= 2 /\ rest[1] = "/" /\ rest[2] = "/"
       THEN LET tail == SubSeq(rest, 3, Len(rest))
            IN SubSeq(tail, 1, FirstIn(tail, {"/", "?", "#"}) - 1)
       ELSE <<>>

\* validate_url on a string
ValidUrlString(s) ==
    LET u == LStrip(s)
    IN UrlScheme(u) # <<>> /\ UrlNetloc(u) # <<>>

\* validate_url(v) for any JSON value: "ok", "bad", or the exception urlparse
\* raises (only ValueError is caught; a true non-string has no .decode)
validate_url(v) ==
    IF v.ty = "str" THEN (IF ValidUrlString(v.s) THEN "ok" ELSE "bad")
    ELSE IF Truthy(v) THEN "AttributeError"
    ELSE "bad"

\* re.match(VERSION_PATTERN, s)
MatchesVersion(s) ==
    LET t == DropFinalNewline(s)
    IN \/ \E i, j \in 1..Len(s) :
            /\ i < j
            /\ s[i] = "." /\ s[j] = "."
            /\ AllIn(SubSeq(s, 1, i - 1), Digits)
            /\ AllIn(SubSeq(s, i + 1, j - 1), Digits)
            /\ AllIn(SubSeq(s, j + 1, Len(s)), Digits)
       \/ \E i, j \in 1..Len(t) :
            /\ i < j
            /\ t[i] = "." /\ t[j] = "."
            /\ AllIn(SubSeq(t, 1, i - 1), Digits)
            /\ AllIn(SubSeq(t, i + 1, j - 1), Digits)
            /\ AllIn(SubSeq(t, j + 1, Len(t)), Digits)

\* validate_version(v): re.match raises TypeError on anything but a string
validate_version(v) ==
    IF v.ty = "str" THEN (IF MatchesVersion(v.s) THEN "ok" ELSE "bad")
    ELSE "TypeError"

\* re.match(GITHUB_REPO_PATTERN, s)
MatchesRepo(s) ==
    LET t == DropFinalNewline(s)
    IN \/ \E i \in 1..Len(s) :
            /\ s[i] = "/"
            /\ AllIn(SubSeq(s, 1, i - 1), RepoChars)
            /\ AllIn(SubSeq(s, i + 1, Len(s)), RepoChars)
       \/ \E i \in 1..Len(t) :
            /\ t[i] = "/"
            /\ AllIn(SubSeq(t, 1, i - 1), RepoChars)
            /\ AllIn(SubSeq(t, i + 1, Len(t)), RepoChars)

\* a statement "if <url check fails>: append(m)" around validate_url
UrlCheck(v, m, asWarning) ==
    LET r == validate_url(v)
    IN IF r \notin {"ok", "bad"} THEN Raises(r)
       ELSE IF asWarning THEN WarningIf(r = "bad", m)
       ELSE ErrorIf(r = "bad", m)

----------------------------------------------------------------------------
(* validate_download_block *)

\* download.latest is flagged: latest_flag not in (None, False, True)
LatestFlagged(latest_flag) ==
    ~ \/ latest_flag.ty = "null"
      \/ EqualsBool(latest_flag, FALSE)
      \/ EqualsBool(latest_flag, TRUE)

\* the github_release branch
GithubReleaseBlock(download, index) ==
    LET repo        == Get(download, "repo")
        asset       == Get(download, "asset")
        latest_flag == Get(download, "latest")
        tag         == Get(download, "tag")
        tag_prefix  == IF "tag_prefix" \in DOMAIN download.d
                       THEN download.d["tag_prefix"] ELSE Str(DEFAULT_TAG_PREFIX)
        repoCheck   ==
            IF ~Truthy(repo) THEN Returns(<<Msg("RepoFormat", index, "download.repo", -1)>>, <<>>)
            ELSE IF repo.ty # "str" THEN Raises("TypeError")
            ELSE ErrorIf(~MatchesRepo(repo.s), Msg("RepoFormat", index, "download.repo", -1))
        assetCheck  ==
            ErrorIf(~Truthy(asset) \/ asset.ty # "str",
                    Msg("AssetRequired", index, "download.asset", -1))
        latestCheck ==
            ErrorIf(LatestFlagged(latest_flag), Msg("LatestNotBoolean", index, "download.latest", -1))
        tagChecks   ==
            IF ~Truthy(latest_flag)
            THEN Then(ErrorIf(Truthy(tag) /\ tag.ty # "str",
                              Msg("TagNotString", index, "download.tag", -1)),
                      ErrorIf(tag_prefix.ty # "str",
                              Msg("TagPrefixNotString", index, "download.tag_prefix", -1)))
            ELSE NoMessages
    IN Then(repoCheck, Then(assetCheck, Then(latestCheck, tagChecks)))

\* the direct branch
DirectBlock(download, index) ==
    LET url == Get(download, "url")
    IN IF ~Truthy(url) \/ url.ty # "str"
       THEN Returns(<<Msg("UrlRequired", index, "download.url", -1)>>, <<>>)
       ELSE ErrorIf(~ValidUrlString(url.s), Msg("UrlInvalid", index, "download.url", -1))

validate_download_block(mod, index) ==
    LET download == Get(mod, "download")
    IN IF download.ty # "dict"
       THEN Returns(<<Msg("DownloadNotObject", index, "download", -1)>>, <<>>)
       ELSE LET download_type == Get(download, "type")
            IN IF ~Hashable(download_type) THEN Raises("TypeError")
               ELSE IF download_type = Str(GITHUB_RELEASE)
                    THEN GithubReleaseBlock(download, index)
               ELSE IF download_type = Str(DIRECT)
                    THEN DirectBlock(download, index)
               ELSE Returns(<<Msg("UnsupportedDownloadType", index, "download.type", -1)>>, <<>>)

----------------------------------------------------------------------------
(* validate_mod_entry *)

\* a faulty variant of the loop below, which leaves "download" to
\* validate_download_block
MissingFieldErrorsButDownload(mod, index) ==
    LET missing == SelectSeq(REQUIRED_FIELDS,
                             LAMBDA f : f # "download" /\ f \notin DOMAIN mod.d)
    IN Returns([i \in 1..Len(missing) |-> Msg("MissingField", index, missing[i], -1)],
               <<>>)

\* for field in REQUIRED_FIELDS: if field not in mod: one error
MissingFieldErrors(mod, index) ==
    LET missing == SelectSeq(REQUIRED_FIELDS, LAMBDA f : f \notin DOMAIN mod.d)
    IN Returns([i \in 1..Len(missing) |-> Msg("MissingField", index, missing[i], -1)],
               <<>>)

\* "type" must be a string that lower-cases to one of VALID_TYPES
TypeCheck(mod, index) ==
    IF "type" \in DOMAIN mod.d
    THEN LET mod_type == mod.d["type"]
         IN ErrorIf(mod_type.ty # "str" \/ Lower(mod_type.s) \notin VALID_TYPES,
                    Msg("InvalidType", index, "type", -1))
    ELSE NoMessages

VersionCheck(mod, index) ==
    IF "version" \in DOMAIN mod.d
    THEN LET r == validate_version(mod.d["version"])
         IN IF r \notin {"ok", "bad"} THEN Raises(r)
            ELSE ErrorIf(r = "bad", Msg("InvalidVersion", index, "version", -1))
    ELSE NoMessages

HomepageCheck(mod, index) ==
    IF "homepage" \in DOMAIN mod.d
    THEN UrlCheck(mod.d["homepage"], Msg("InvalidHomepage", index, "homepage", -1), FALSE)
    ELSE NoMessages

ChangelogCheck(mod, index) ==
    IF "changelog_url" \in DOMAIN mod.d /\ Truthy(mod.d["changelog_url"])
    THEN UrlCheck(mod.d["changelog_url"],
                  Msg("InvalidChangelog", index, "changelog_url", -1), TRUE)
    ELSE NoMessages

DeprecatedCheck(mod, index) ==
    ErrorIf("download_url" \in DOMAIN mod.d,
            Msg("DeprecatedDownloadUrl", index, "download_url", -1))

DescriptionCheck(mod, index) ==
    IF "description" \in DOMAIN mod.d
    THEN IF ~Sized(mod.d["description"]) THEN Raises("TypeError")
         ELSE WarningIf(PyLen(mod.d["description"]) > MAX_DESCRIPTION_LENGTH,
                        Msg("DescriptionTooLong", index, "description", -1))
    ELSE NoMessages

\* for field in REQUIRED_FIELDS: a string value that strips to nothing
EmptyFieldErrors(mod, index) ==
    LET empty == SelectSeq(REQUIRED_FIELDS,
                           LAMBDA f : LET value == Get(mod, f)
                                      IN value.ty = "str" /\ StripsToEmpty(value.s))
    IN Returns([i \in 1..Len(empty) |-> Msg("EmptyField", index, empty[i], -1)], <<>>)

OptionalTypeChecks(mod, index) ==
    Then(ErrorIf("dependencies" \in DOMAIN mod.d /\ Get(mod, "dependencies").ty # "list",
                 Msg("DependenciesNotArray", index, "dependencies", -1)),
    Then(ErrorIf("conflicts" \in DOMAIN mod.d /\ Get(mod, "conflicts").ty # "list",
                 Msg("ConflictsNotArray", index, "conflicts", -1)),
         ErrorIf("install_notes" \in DOMAIN mod.d /\ Get(mod, "install_notes").ty # "str",
                 Msg("InstallNotesNotString", index, "install_notes", -1))))

\* asset_name = str(download_info.get("asset") or "") when download is a
\* non-empty dict, "" otherwise
AssetName(mod) ==
    LET download == Get(mod, "download")
    IN IF download.ty = "dict" /\ Truthy(download) /\ Truthy(Get(download, "asset"))
       THEN PyStr(Get(download, "asset"))
       ELSE <<>>

\* a faulty variant of the suffix test below, which compares the case too
IsZipNameCaseSensitive(asset_name) == EndsWith(asset_name, DOT_ZIP)

\* asset_name.lower().endswith(".zip")
IsZipName(asset_name) == EndsWith(Lower(asset_name), DOT_ZIP)

ManifestChecks(mod, index) ==
    LET manifest_url == Get(mod, "manifest_url")
        asset_name   == AssetName(mod)
    IN Then(IF Truthy(manifest_url)
            THEN UrlCheck(manifest_url,
                          Msg("InvalidManifestUrl", index, "manifest_url", -1), FALSE)
            ELSE NoMessages,
            ErrorIf(asset_name # <<>> /\ ~IsZipName(asset_name) /\ ~Truthy(manifest_url),
                    Msg("NonZipNeedsManifest", index, "manifest_url", -1)))

validate_mod_entry(mod, index) ==
    IF mod.ty # "dict" THEN Raises("AttributeError")
    ELSE Then(MissingFieldErrors(mod, index),
         Then(TypeCheck(mod, index),
         Then(VersionCheck(mod, index),
         Then(HomepageCheck(mod, index),
         Then(ChangelogCheck(mod, index),
         Then(DeprecatedCheck(mod, index),
         Then(DescriptionCheck(mod, index),
         Then(EmptyFieldErrors(mod, index),
         Then(OptionalTypeChecks(mod, index),
         Then(validate_download_block(mod, index),
              ManifestChecks(mod, index)))))))))))

----------------------------------------------------------------------------
(* check_duplicates, validate_store_structure *)

\* a value up to Python's ==, as a dict key or an operand of != is compared:
\* True and 1 (False and 0) are one value
PyKey(v) == IF v.ty = "bool" THEN Num(v.n) ELSE v

\* name = mod.get("name", "")
NameOf(mod) == IF "name" \in DOMAIN mod.d THEN mod.d["name"] ELSE Str(<<>>)

\* the loop of check_duplicates from position i (1-based; enumerate counts
\* from 0), with `names` the dict of the first index of each name seen
RECURSIVE DupLoop(_, _, _)
DupLoop(mods, i, names) ==
    IF i > Len(mods) THEN NoMessages
    ELSE IF mods[i].ty # "dict" THEN Raises("AttributeError")
    ELSE IF ~Hashable(NameOf(mods[i])) THEN Raises("TypeError")
    ELSE LET name == PyKey(NameOf(mods[i]))
         IN IF name \in DOMAIN names
            THEN Then(Returns(<<Msg("Duplicate", i - 1, "name", names[name])>>, <<>>),
                      DupLoop(mods, i + 1, names))
            ELSE DupLoop(mods, i + 1, (name :> (i - 1)) @@ names)

\* a faulty variant of the loop above, which records the index of every
\* occurrence of a name, so that an error names the previous occurrence
RECURSIVE DupLoopLastSeen(_, _, _)
DupLoopLastSeen(mods, i, names) ==
    IF i > Len(mods) THEN NoMessages
    ELSE IF mods[i].ty # "dict" THEN Raises("AttributeError")
    ELSE IF ~Hashable(NameOf(mods[i])) THEN Raises("TypeError")
    ELSE LET name   == PyKey(NameOf(mods[i]))
             others == [k \in DOMAIN names \ {name} |-> names[k]]
         IN Then(ErrorIf(name \in DOMAIN names,
                         Msg("Duplicate", i - 1, "name",
                             IF name \in DOMAIN names THEN names[name] ELSE -1)),
                 DupLoopLastSeen(mods, i + 1, (name :> (i - 1)) @@ others))

check_duplicates_LastSeen(mods) == DupLoopLastSeen(mods, 1, [k \in {} |-> 0])

check_duplicates(mods) == DupLoop(mods, 1, [k \in {} |-> 0])

\* "mods" in data, for whatever JSON value the file holds: a key of a dict, an
\* element of a list, a substring of a str; anything else is not iterable
ContainsMods(data) ==
    CASE data.ty = "dict" -> "mods" \in DOMAIN data.d
      [] data.ty = "list" -> \E i \in 1..Len(data.l) : data.l[i] = Str(MODS)
      [] data.ty = "str"  -> \E i \in 1..Len(data.s) :
                                StartsWith(SubSeq(data.s, i, Len(data.s)), MODS)
      [] OTHER            -> FALSE

\* a faulty variant of the validator below, which does not return after the
\* missing "mods" and goes on to the "version" check
validate_store_structure_NoReturn(data) ==
    IF data.ty # "dict" THEN Raises("TypeError")
    ELSE Then(ErrorIf("mods" \notin DOMAIN data.d, Msg("MissingMods", 0, "mods", -1)),
         Then(ErrorIf("mods" \in DOMAIN data.d /\ data.d["mods"].ty # "list",
                      Msg("ModsNotArray", 0, "mods", -1)),
              WarningIf("version" \notin DOMAIN data.d,
                        Msg("MissingStoreVersion", 0, "version", -1))))

validate_store_structure(data) ==
    IF data.ty \notin {"dict", "list", "str"} THEN Raises("TypeError")
    ELSE IF ~ContainsMods(data)
    THEN Returns(<<Msg("MissingMods", 0, "mods", -1)>>, <<>>)
    ELSE IF data.ty # "dict" THEN Raises("TypeError")
    ELSE IF data.d["mods"].ty # "list"
    THEN Returns(<<Msg("ModsNotArray", 0, "mods", -1)>>, <<>>)
    ELSE Then(WarningIf("version" \notin DOMAIN data.d,
                        Msg("MissingStoreVersion", 0, "version", -1)),
              WarningIf(/\ "mod_count" \in DOMAIN data.d
                        /\ Num(Len(data.d["mods"].l)) # PyKey(data.d["mod_count"]),
                        Msg("ModCountMismatch", 0, "mod_count", -1)))

----------------------------------------------------------------------------
(* Remote verification: github_api_get, normalise_tag, verify_github_release *)

\* a release as the API documents it: an object with an optional tag_name
\* (a string) and an optional list of assets, each an object with a name and
\* an optional browser_download_url
Asset(name, url) == Obj(("name" :> Str(name)) @@ Opt("browser_download_url", url))

Release(tag_name, assets) == Obj(Opt("tag_name", tag_name) @@ Opt("assets", assets))

PayloadTags ==
    {Absent, Str(<<"v">>), Str(<<"v">> \o V1), Str(<<"v">> \o V2), Str(V1)}

PayloadAssets ==
    {Absent, List(<<>>),
     List(<<Asset(M_ZIP, Str(URL_OK))>>),
     List(<<Asset(M_RAR, Str(URL_OK)), Asset(M_ZIP, Absent)>>)}

Payloads == {Release(tg, a) : tg \in PayloadTags, a \in PayloadAssets}

\* What github_api_get can return: (None, "Not found"), (None, "HTTP ..."),
\* (None, "Network error: ...") or (payload, None)
ApiResult(error, payload) == [error |-> error, payload |-> payload]

ApiErrors == {"Not found", "HTTP error", "Network error"}

NoResult == ApiResult("", Null)

github_api_get ==
    {ApiResult(e, Null) : e \in ApiErrors} \cup {ApiResult("", p) : p \in Payloads}

\* a faulty variant of normalise_tag, which drops the prefix's length from a
\* tag without testing that the tag starts with it
normalise_tag_Unchecked(tag, prefix) ==
    SubSeq(tag, Len(prefix) + 1, Len(tag))

normalise_tag(tag, prefix) ==
    IF prefix # <<>> /\ StartsWith(tag, prefix)
    THEN SubSeq(tag, Len(prefix) + 1, Len(tag))
    ELSE tag

\* the keys verify_github_release subscripts before its first request
\* (download["repo"], download["asset"], mod["version"]): a KeyError when absent
HasSubscripted(mod, download) ==
    /\ "repo" \in DOMAIN download.d
    /\ "asset" \in DOMAIN download.d
    /\ "version" \in DOMAIN mod.d

TagPrefixOf(download) ==
    IF "tag_prefix" \in DOMAIN download.d THEN download.d["tag_prefix"]
    ELSE Str(DEFAULT_TAG_PREFIX)

UseLatest(download) == Truthy(Get(download, "latest"))

\* a message of verify_github_release: its text formats mod['name'], a
\* KeyError when the entry has no name
Emit(mod, cond, asWarning, m) ==
    IF ~cond THEN NoMessages
    ELSE IF "name" \notin DOMAIN mod.d THEN Raises("KeyError")
    ELSE IF asWarning THEN Returns(<<>>, <<m>>)
    ELSE Returns(<<m>>, <<>>)

\* lines 338-349: the asset must be among the release's assets, with a URL
AssetCheck(mod, download, release, index) ==
    LET asset_name == download.d["asset"]
        assets     == IF "assets" \in DOMAIN release.d THEN release.d["assets"].l ELSE <<>>
        named      == {i \in 1..Len(assets) :
                          PyKey(Get(assets[i], "name")) = PyKey(asset_name)}
    IN IF ~Hashable(asset_name) THEN Raises("TypeError")
       ELSE IF named = {}
       THEN Emit(mod, TRUE, FALSE, Msg("AssetNotFound", index, "download.asset", -1))
       ELSE LET first == CHOOSE i \in named : \A k \in named : i <= k
            IN Emit(mod, ~Truthy(Get(assets[first], "browser_download_url")), TRUE,
                    Msg("AssetNoUrl", index, "download.asset", -1))

\* lines 364-371: the staleness comparison against the latest release
StaleCheck(mod, download, latest_release, index) ==
    LET tag_prefix    == TagPrefixOf(download)
        store_version == mod.d["version"]
        latest_tag    == IF "tag_name" \in DOMAIN latest_release.d
                         THEN latest_release.d["tag_name"].s ELSE <<>>
    IN IF Truthy(tag_prefix) /\ tag_prefix.ty # "str" THEN Raises("TypeError")
       ELSE LET latest_version ==
                    normalise_tag(latest_tag, IF tag_prefix.ty = "str" THEN tag_prefix.s ELSE <<>>)
            IN Emit(mod, latest_version # <<>> /\ Str(latest_version) # store_version,
                    TRUE, Msg("Stale", index, "version", -1))

----------------------------------------------------------------------------
(* The state of a run *)

VARIABLES
    fileState,        \* the file at mods_path: "ok", "missing", "unreadable", "malformed"
    data,             \* the JSON value the file holds (the argument, for a function call)
    verify,           \* args.verify_downloads
    pc,               \* where the run is
    index,            \* the loop index of main and verify_downloads (1-based)
    errors,           \* main's error list
    warnings,         \* main's warning list
    remote_errors,    \* verify_downloads' error list
    remote_warnings,  \* verify_downloads' warning list
    mod_errors,       \* verify_github_release's error list
    mod_warnings,     \* verify_github_release's warning list
    release,          \* what the first github_api_get of an entry returned
    latest_release,   \* the latest release the version is compared with
    requests,         \* the requests issued so far
    exception,        \* the exception that escaped, "none" if none
    exit_status,      \* the exit status of the process, -1 while it runs
    result            \* what a called function returned (function calls)

vars == <<fileState, data, verify, pc, index, errors, warnings, remote_errors,
          remote_warnings, mod_errors, mod_warnings, release, latest_release,
          requests, exception, exit_status, result>>

inputs == <<fileState, data, verify>>

lists == <<errors, warnings>>

remote == <<remote_errors, remote_warnings, mod_errors, mod_warnings, release,
            latest_release, requests>>

\* a request of verify_github_release, as the log keeps it
Request(i, which, kind, ok) == [index |-> i, which |-> which, kind |-> kind, ok |-> ok]

\* what the loops of main, check_duplicates and verify_downloads iterate:
\* data.get("mods", []).  A list gives its elements, a str its characters, a
\* dict its keys (strings both); None and numbers are not iterable, and only
\* a dict has .get
ModsOf(d) ==
    IF d.ty # "dict" THEN [exc |-> "AttributeError", items |-> <<>>]
    ELSE IF "mods" \notin DOMAIN d.d THEN [exc |-> "none", items |-> <<>>]
    ELSE LET mods == d.d["mods"]
         IN CASE mods.ty = "list" -> [exc |-> "none", items |-> mods.l]
              [] mods.ty = "str"  ->
                    [exc |-> "none", items |-> [i \in 1..Len(mods.s) |-> Str(<<mods.s[i]>>)]]
              [] mods.ty = "dict" ->
                    [exc |-> "none",
                     items |-> [i \in 1..Cardinality(DOMAIN mods.d) |-> Str(<<"k">>)]]
              [] OTHER            -> [exc |-> "TypeError", items |-> <<>>]

\* an exception nobody catches: the interpreter prints the traceback and the
\* process exits with status 1
Crash(exc) ==
    /\ pc' = "crashed"
    /\ exception' = exc
    /\ exit_status' = 1

\* return <status> from main, handed to sys.exit
Return(status) ==
    /\ pc' = "done"
    /\ exit_status' = status
    /\ UNCHANGED exception

----------------------------------------------------------------------------
(* main *)

\* lines 431-438: the file must exist, load and hold something other than null
LoadFile ==
    /\ pc = "start"
    /\ IF fileState # "ok" \/ data.ty = "null"
       THEN Return(1)
       ELSE /\ pc' = "structure"
            /\ UNCHANGED <<exception, exit_status>>
    /\ UNCHANGED <<inputs, index, lists, remote, result>>

\* line 442
ValidateStructure ==
    /\ pc = "structure"
    /\ LET r == validate_store_structure(data)
       IN IF r.exc # "none"
          THEN Crash(r.exc) /\ UNCHANGED lists
          ELSE /\ errors' = r.errors
               /\ warnings' = r.warnings
               /\ pc' = "entries"
               /\ UNCHANGED <<exception, exit_status>>
    /\ UNCHANGED <<inputs, index, remote, result>>

\* lines 444-447: one iteration of the loop over the entries
ValidateEntry ==
    /\ pc = "entries"
    /\ LET it == ModsOf(data)
       IN IF it.exc # "none"
          THEN Crash(it.exc) /\ UNCHANGED <<index, lists>>
          ELSE /\ index <= Len(it.items)
               /\ LET r == validate_mod_entry(it.items[index], index)
                  IN IF r.exc # "none"
                     THEN Crash(r.exc) /\ UNCHANGED <<index, lists>>
                     ELSE /\ errors' = errors \o r.errors
                          /\ warnings' = warnings \o r.warnings
                          /\ index' = index + 1
                          /\ UNCHANGED <<pc, exception, exit_status>>
    /\ UNCHANGED <<inputs, remote, result>>

\* a faulty variant of the choice below, which runs the remote pass always
AfterDuplicatesAlways(verify_downloads_flag) == "verify"

\* line 451: the remote pass runs only when args.verify_downloads is set
AfterDuplicates(verify_downloads_flag) ==
    IF verify_downloads_flag THEN "verify" ELSE "report"

\* lines 449-451: after the loop, the duplicate check and the choice of the
\* remote pass
CheckDuplicates ==
    /\ pc = "entries"
    /\ LET it == ModsOf(data)
       IN /\ it.exc = "none"
          /\ index > Len(it.items)
          /\ LET r == check_duplicates(it.items)
             IN IF r.exc # "none"
                THEN Crash(r.exc) /\ UNCHANGED <<index, lists>>
                ELSE /\ errors' = errors \o r.errors
                     /\ index' = 1
                     /\ pc' = AfterDuplicates(verify)
                     /\ UNCHANGED <<warnings, exception, exit_status>>
    /\ UNCHANGED <<inputs, remote, result>>

\* lines 456-472
Report ==
    /\ pc = "report"
    /\ Return(IF errors # <<>> THEN 1 ELSE 0)
    /\ UNCHANGED <<inputs, index, lists, remote, result>>

----------------------------------------------------------------------------
(* verify_downloads and verify_github_release *)

IsGithubRelease(mod) ==
    /\ Get(mod, "download").ty = "dict"
    /\ Get(Get(mod, "download"), "type") = Str(GITHUB_RELEASE)

\* lines 382-387: an entry that is not a github_release download is passed over
VerifySkip ==
    /\ pc = "verify"
    /\ LET mods == ModsOf(data).items
       IN /\ index <= Len(mods)
          /\ IF mods[index].ty # "dict"
             THEN Crash("AttributeError") /\ UNCHANGED index
             ELSE /\ ~IsGithubRelease(mods[index])
                  /\ index' = index + 1
                  /\ UNCHANGED <<pc, exception, exit_status>>
    /\ UNCHANGED <<inputs, lists, remote, result>>

\* a faulty variant of the return below, which reports the failure as a
\* warning as well
AbandonEntryWithWarning(e) ==
    /\ remote_errors' = remote_errors \o e.errors
    /\ remote_warnings' = remote_warnings \o e.errors
    /\ index' = index + 1
    /\ release' = NoResult
    /\ UNCHANGED <<pc, exception, exit_status>>

\* lines 320-325, 331-336 and 388-390: the first request failed;
\* verify_github_release returns its one error and no warning, and
\* verify_downloads goes on with the next entry
AbandonEntry(e) ==
    /\ remote_errors' = remote_errors \o e.errors
    /\ remote_warnings' = remote_warnings \o e.warnings
    /\ index' = index + 1
    /\ release' = NoResult
    /\ UNCHANGED <<pc, exception, exit_status>>

\* lines 310-336: the first request of an entry, for the latest release or for
\* the release of the tag
FirstFetch ==
    /\ pc = "verify"
    /\ LET mods == ModsOf(data).items
       IN /\ index <= Len(mods)
          /\ mods[index].ty = "dict"
          /\ IsGithubRelease(mods[index])
          /\ LET mod      == mods[index]
                 download == mod.d["download"]
                 kind     == IF UseLatest(download) THEN "latest" ELSE "tag"
                 failed   == Msg(IF UseLatest(download) THEN "FetchLatestFailed"
                                 ELSE "FetchTagFailed", index, "download.repo", -1)
             IN IF ~HasSubscripted(mod, download)
                THEN /\ Crash("KeyError")
                     /\ UNCHANGED <<index, remote>>
                ELSE \E res \in github_api_get :
                       /\ requests' = Append(requests,
                                             Request(index, "first", kind, res.error = ""))
                       /\ IF res.error # ""
                          THEN LET e == Emit(mod, TRUE, FALSE, failed)
                               IN IF e.exc # "none"
                                  THEN /\ Crash(e.exc)
                                       /\ UNCHANGED <<index, remote_errors,
                                                      remote_warnings, release>>
                                  ELSE AbandonEntry(e)
                          ELSE /\ release' = res
                               /\ pc' = "verify_assets"
                               /\ UNCHANGED <<index, remote_errors, remote_warnings,
                                              exception, exit_status>>
                       /\ UNCHANGED <<mod_errors, mod_warnings, latest_release>>
    /\ UNCHANGED <<inputs, lists, result>>

\* lines 338-362: the asset check, then the latest release: the first
\* request's when `latest` was asked for, a second request's otherwise
CheckAssets ==
    /\ pc = "verify_assets"
    /\ LET mod      == ModsOf(data).items[index]
           download == mod.d["download"]
           a        == AssetCheck(mod, download, release.payload, index)
       IN IF a.exc # "none"
          THEN /\ Crash(a.exc)
               /\ UNCHANGED <<index, remote>>
          ELSE IF UseLatest(download)
          THEN /\ latest_release' = release
               /\ release' = NoResult
               /\ mod_errors' = a.errors
               /\ mod_warnings' = a.warnings
               /\ pc' = "compare"
               /\ UNCHANGED <<index, remote_errors, remote_warnings, requests,
                              exception, exit_status>>
          ELSE \E res \in github_api_get :
                 /\ requests' = Append(requests,
                                       Request(index, "second", "latest", res.error = ""))
                 /\ release' = NoResult
                 /\ IF res.error # ""
                    THEN LET w == Emit(mod, TRUE, TRUE,
                                       Msg("LatestUnknown", index, "download.repo", -1))
                         IN IF w.exc # "none"
                            THEN /\ Crash(w.exc)
                                 /\ UNCHANGED <<index, remote_errors, remote_warnings,
                                                mod_errors, mod_warnings, latest_release>>
                            ELSE /\ remote_errors' = remote_errors \o a.errors
                                 /\ remote_warnings' =
                                        remote_warnings \o a.warnings \o w.warnings
                                 /\ index' = index + 1
                                 /\ pc' = "verify"
                                 /\ UNCHANGED <<mod_errors, mod_warnings, latest_release,
                                                exception, exit_status>>
                    ELSE /\ latest_release' = res
                         /\ mod_errors' = a.errors
                         /\ mod_warnings' = a.warnings
                         /\ pc' = "compare"
                         /\ UNCHANGED <<index, remote_errors, remote_warnings,
                                        exception, exit_status>>
    /\ UNCHANGED <<inputs, lists, result>>

\* lines 364-373 and 388-390: the staleness comparison, and the return to
\* verify_downloads, which takes the entry's messages
CompareVersions ==
    /\ pc = "compare"
    /\ LET mod      == ModsOf(data).items[index]
           download == mod.d["download"]
           s        == StaleCheck(mod, download, latest_release.payload, index)
       IN IF s.exc # "none"
          THEN /\ Crash(s.exc)
               /\ UNCHANGED <<index, remote>>
          ELSE /\ remote_errors' = remote_errors \o mod_errors
               /\ remote_warnings' = remote_warnings \o mod_warnings \o s.warnings
               /\ mod_errors' = <<>>
               /\ mod_warnings' = <<>>
               /\ latest_release' = NoResult
               /\ index' = index + 1
               /\ pc' = "verify"
               /\ UNCHANGED <<release, requests, exception, exit_status>>
    /\ UNCHANGED <<inputs, lists, result>>

\* lines 392 and 452-454: verify_downloads returns and main takes its lists
VerifyReturn ==
    /\ pc = "verify"
    /\ index > Len(ModsOf(data).items)
    /\ errors' = errors \o remote_errors
    /\ warnings' = warnings \o remote_warnings
    /\ pc' = "report"
    /\ UNCHANGED <<inputs, index, remote, exception, exit_status, result>>

----------------------------------------------------------------------------
(* Calls of single functions *)

CallValidateModEntry ==
    /\ pc = "call_validate_mod_entry"
    /\ result' = validate_mod_entry(data, index)
    /\ pc' = "returned"
    /\ UNCHANGED <<inputs, index, lists, remote, exception, exit_status>>

CallCheckDuplicates ==
    /\ pc = "call_check_duplicates"
    /\ result' = check_duplicates(data.l)
    /\ pc' = "returned"
    /\ UNCHANGED <<inputs, index, lists, remote, exception, exit_status>>

----------------------------------------------------------------------------
(* The inputs the runs are checked on *)

\* the entries of a manifest in a run of main
MaxMods == 2

\* the entries handed to check_duplicates
MaxDupLen == 4

\* the entries handed to verify_downloads
MaxRemoteMods == 2

\* the index argument of validate_mod_entry
MaxIndex == 2

\* a github_release download descriptor; Absent leaves a key out
GithubDownload(repo, asset, latest, tag, tag_prefix) ==
    Obj(("type" :> Str(GITHUB_RELEASE)) @@ Opt("repo", repo) @@ Opt("asset", asset)
        @@ Opt("latest", latest) @@ Opt("tag", tag) @@ Opt("tag_prefix", tag_prefix))

DirectDownload(url, asset) ==
    Obj(("type" :> Str(DIRECT)) @@ Opt("url", url) @@ Opt("asset", asset))

\* an entry with the seven required fields
Mod(name, version, download) ==
    Obj(Opt("name", name) @@ Opt("version", version) @@ ("type" :> Str(<<"U","i">>))
        @@ ("author" :> Str(<<"x">>)) @@ ("description" :> Str(<<"d">>))
        @@ ("homepage" :> Str(URL_OK)) @@ Opt("download", download))

ZipDownload == GithubDownload(Str(REPO_OK), Str(M_ZIP), Absent, Absent, Absent)

\* the entries of the manifests main is run on: valid ones, ones with errors
\* or warnings, and ones whose values have another JSON type than the data
\* model gives them
MainEntries ==
    { Mod(Str(NAME_A), Str(V1), ZipDownload),
      Mod(Str(NAME_B), Str(V1), DirectDownload(Str(URL_OK), Absent)),
      Mod(Str(NAME_A), Str(V1),
          GithubDownload(Str(REPO_OK), Str(M_RAR), Bool(TRUE), Absent, Absent)),
      With(Mod(Str(NAME_B), Str(V1), DirectDownload(Str(URL_OK), Absent)),
           "description", Str(Text(MAX_DESCRIPTION_LENGTH + 1))),
      Mod(Absent, Str(V1), ZipDownload),
      Mod(Str(NAME_B), Absent, ZipDownload),
      Mod(Str(NAME_B), Str(V1),
          GithubDownload(Absent, Str(M_ZIP), Absent, Absent, Absent)),
      Mod(Str(NAME_B), Str(V1),
          GithubDownload(Str(REPO_OK), Absent, Absent, Absent, Absent)),
      Mod(Str(NAME_A), Num(1), ZipDownload),
      With(Mod(Str(NAME_A), Str(V1), ZipDownload), "homepage", Num(1)),
      With(Mod(Str(NAME_A), Str(V1), ZipDownload), "description", Num(5)),
      Str(NAME_A) }

RECURSIVE SeqsUpTo(_, _)
\* the sequences of at most n elements of S
SeqsUpTo(S, n) ==
    IF n = 0 THEN {<<>>}
    ELSE LET shorter == SeqsUpTo(S, n - 1)
         IN shorter \cup {Append(q, x) : q \in {r \in shorter : Len(r) = n - 1}, x \in S}

\* the values of the "mods" key
ModsValues ==
    {Absent, Null, Num(1), Str(<<>>), Str(<<"a">>), Obj(NoFields)}
    \cup {List(q) : q \in SeqsUpTo(MainEntries, MaxMods)}

\* the JSON values a manifest file can hold
Manifests ==
    {Null, Num(1), Str(NAME_A), Str(MODS), List(<<>>), List(<<Str(MODS)>>)}
    \cup {Obj(Opt("version", v) @@ Opt("mod_count", c) @@ Opt("mods", m)) :
             v \in {Absent, Str(V1)}, c \in {Absent, Num(1)}, m \in ModsValues}

\* the values of download.asset and of download.latest an entry is validated with
AssetValues ==
    {Absent, Str(M_ZIP), Str(M_ZIP_UPPER), Str(M_RAR), Str(DOT_ZIP), Str(<<>>), Num(5)}

LatestValues ==
    {Absent, Null, Bool(TRUE), Bool(FALSE), Num(0), Num(1), Num(2),
     Str(<<"y","e","s">>), Str(<<>>), List(<<>>)}

ManifestUrlValues == {Absent, Null, Str(URL_OK), Str(URL_BAD), Str(<<>>)}

DownloadValues ==
    {Absent, Null, Str(URL_OK), Obj(NoFields)}
    \cup {GithubDownload(Str(REPO_OK), a, l, Absent, Absent) :
             a \in AssetValues, l \in LatestValues}
    \cup {DirectDownload(Str(URL_OK), a) : a \in AssetValues}
    \cup {Obj(("type" :> Str(<<"f","t","p">>)) @@ Opt("asset", a)) : a \in AssetValues}

\* the entries validate_mod_entry is called on: every set of required fields
\* left out, and every download descriptor with every manifest_url
EntryInputs ==
    {Without(Mod(Str(NAME_A), Str(V1), d), gone) :
        d \in {Absent, Null, ZipDownload},
        gone \in SUBSET {"name", "version", "type", "author", "description", "homepage"}}
    \cup {With(Mod(Str(NAME_A), Str(V1), d), "manifest_url", u) :
             d \in DownloadValues, u \in ManifestUrlValues}

\* the entries check_duplicates is called on: a name, an empty name, no name
DupEntries ==
    {Obj(Opt("name", n)) : n \in {Absent, Str(<<>>), Str(NAME_A), Str(NAME_B)}}

\* the entries of the lists verify_downloads is called on: a direct
\* download, a release by tag, a latest release
RemoteListEntries ==
    { Mod(Str(NAME_B), Str(V1), DirectDownload(Str(URL_OK), Absent)),
      Mod(Str(NAME_A), Str(V1), ZipDownload),
      Mod(Str(NAME_B), Str(V2),
          GithubDownload(Str(REPO_OK), Str(M_ZIP), Bool(TRUE), Absent, Absent)) }

\* the single entries verify_downloads is called on
RemoteEntries ==
    {Mod(Str(NAME_B), Str(V1), DirectDownload(Str(URL_OK), Absent))}
    \cup {Mod(Str(NAME_A), Str(v), GithubDownload(Str(REPO_OK), Str(M_ZIP), l, Absent, p)) :
             v \in {V1, V2},
             l \in {Absent, Bool(TRUE)},
             p \in {Absent, Str(<<>>), Str(<<"v">>), Str(<<"r">>)}}

----------------------------------------------------------------------------
(* Specifications *)

\* every variable a run starts with, but the inputs and the place it starts at
Fresh ==
    /\ errors = <<>>
    /\ warnings = <<>>
    /\ remote_errors = <<>>
    /\ remote_warnings = <<>>
    /\ mod_errors = <<>>
    /\ mod_warnings = <<>>
    /\ release = NoResult
    /\ latest_release = NoResult
    /\ requests = <<>>
    /\ exception = "none"
    /\ exit_status = -1
    /\ result = NoMessages

\* a run of main
Init ==
    /\ \/ fileState \in {"missing", "unreadable", "malformed"} /\ data = Null
       \/ fileState = "ok" /\ data \in Manifests
    /\ verify \in BOOLEAN
    /\ pc = "start"
    /\ index = 1
    /\ Fresh

Next ==
    \/ LoadFile
    \/ ValidateStructure
    \/ ValidateEntry
    \/ CheckDuplicates
    \/ VerifySkip
    \/ FirstFetch
    \/ CheckAssets
    \/ CompareVersions
    \/ VerifyReturn
    \/ Report

Spec == Init /\ [][Next]_vars

\* a call of validate_mod_entry(mod, index)
InitEntry ==
    /\ fileState = "ok"
    /\ data \in EntryInputs
    /\ verify = FALSE
    /\ pc = "call_validate_mod_entry"
    /\ index \in 1..MaxIndex
    /\ Fresh

NextEntry == CallValidateModEntry

SpecEntry == InitEntry /\ [][NextEntry]_vars

\* a call of check_duplicates(mods)
InitDup ==
    /\ fileState = "ok"
    /\ data \in {List(q) : q \in SeqsUpTo(DupEntries, MaxDupLen)}
    /\ verify = FALSE
    /\ pc = "call_check_duplicates"
    /\ index = 1
    /\ Fresh

NextDup == CallCheckDuplicates

SpecDup == InitDup /\ [][NextDup]_vars

\* a call of verify_downloads(mods) on a list of entries
InitRemote ==
    /\ fileState = "ok"
    /\ data \in {Obj("mods" :> List(q)) : q \in SeqsUpTo(RemoteListEntries, MaxRemoteMods)}
    /\ verify = TRUE
    /\ pc = "verify"
    /\ index = 1
    /\ Fresh

NextRemote ==
    \/ VerifySkip
    \/ FirstFetch
    \/ CheckAssets
    \/ CompareVersions
    \/ VerifyReturn

SpecRemote == InitRemote /\ [][NextRemote]_vars

\* a call of verify_downloads(mods) on one entry, with every version, flag
\* and prefix
InitRelease ==
    /\ fileState = "ok"
    /\ data \in {Obj("mods" :> List(<<e>>)) : e \in RemoteEntries}
    /\ verify = TRUE
    /\ pc = "verify"
    /\ index = 1
    /\ Fresh

SpecRelease == InitRelease /\ [][NextRemote]_vars

----------------------------------------------------------------------------
(* The properties *)

\* the number of messages of a list that satisfy P
Count(list, P(_)) == Cardinality({k \in 1..Len(list) : P(list[k])})

\* the entries of the manifest, when it is an object whose "mods" is an array
HasEntryList ==
    /\ data.ty = "dict"
    /\ "mods" \in DOMAIN data.d
    /\ data.d["mods"].ty = "list"

\* the entry at a position is an object whose download.type is github_release
IsGithubEntry(i) ==
    /\ HasEntryList
    /\ i \in 1..Len(data.d["mods"].l)
    /\ LET mod == data.d["mods"].l[i]
       IN /\ mod.ty = "dict"
          /\ "download" \in DOMAIN mod.d
          /\ mod.d["download"].ty = "dict"
          /\ "type" \in DOMAIN mod.d["download"].d
          /\ mod.d["download"].d["type"] = Str(GITHUB_RELEASE)

(* ---- C1 ---- *)

\* C1: for a run of main on a missing, unreadable or malformed file or on a
\* manifest that is a JSON object, once the run has ended the exit status is 1
\* when the file was missing, unreadable or malformed or when the accumulated
\* error list is non-empty, and 0 otherwise, whatever the warnings.
C1_ExitStatus ==
    (pc \in {"done", "crashed"} /\ (fileState # "ok" \/ data.ty = "dict"))
        => exit_status = IF fileState # "ok" \/ errors # <<>> THEN 1 ELSE 0

\* a run that ended with status 1 on a loaded manifest with no error
\* accumulated
C1_Witness ==
    /\ pc = "crashed"
    /\ fileState = "ok"
    /\ HasEntryList
    /\ errors = <<>>
    /\ exit_status = 1

(* ---- C2 ---- *)

\* C2: for a manifest that parses as a JSON object with an array of entries,
\* whatever the types of the entries' values, no exception escapes from a run
\* of main, and a run that has ended has exit status 0 or 1.
C2_NoExceptionEscapes ==
    (fileState = "ok" /\ HasEntryList)
        => /\ exception = "none"
           /\ pc # "crashed"
           /\ (pc = "done" => exit_status \in {0, 1})

\* an exception escaped while the first of two entries was validated
C2_Witness ==
    /\ pc = "crashed"
    /\ exception # "none"
    /\ HasEntryList
    /\ Len(data.d["mods"].l) = 2
    /\ index = 1
    /\ requests = <<>>
    /\ ~verify

(* ---- C3 ---- *)

\* C3: in a run of main on a manifest object without the "mods" key, once
\* validate_store_structure has returned the error list is the one "Missing
\* 'mods' array" error and stays so, there is no warning (the version and
\* mod_count checks are skipped), the entry loop, the duplicate check and
\* the remote pass add no message and issue no request, no exception escapes,
\* and the run ends with status 1.
C3_MissingMods ==
    (data.ty = "dict" /\ "mods" \notin DOMAIN data.d /\ pc \notin {"start", "structure"})
        => /\ errors = <<Msg("MissingMods", 0, "mods", -1)>>
           /\ warnings = <<>>
           /\ remote_errors = <<>>
           /\ remote_warnings = <<>>
           /\ requests = <<>>
           /\ pc # "crashed"
           /\ (pc = "done" => exit_status = 1)

\* a run with the remote pass on a manifest without "mods" and without
\* "version", carrying a "mod_count", has ended
C3_Witness ==
    /\ pc = "done"
    /\ data.ty = "dict"
    /\ DOMAIN data.d = {"mod_count"}
    /\ verify
    /\ errors = <<Msg("MissingMods", 0, "mods", -1)>>

(* ---- C4 ---- *)

\* the errors validate_mod_entry returned that name a field
ErrorsNaming(field) == Count(result.errors, LAMBDA m : m.field = field)

\* the "Missing required field" errors validate_mod_entry returned for a field
MissingErrors(field) ==
    Count(result.errors, LAMBDA m : m.kind = "MissingField" /\ m.field = field)

RequiredFieldSet == {REQUIRED_FIELDS[i] : i \in 1..Len(REQUIRED_FIELDS)}

\* C4 as stated: validate_mod_entry returns exactly one error naming each
\* required field the entry lacks, `download` included.
C4_OneErrorPerMissingField ==
    pc = "returned"
        => \A field \in RequiredFieldSet :
              field \notin DOMAIN data.d => ErrorsNaming(field) = 1

\* C4: validate_mod_entry returns exactly one "Missing required field" error
\* for each required field the entry lacks and none for a field it has; it is
\* the only error naming the field, except for `download`, whose absence
\* validate_download_block reports once more ("'download' must be an
\* object"), so that two errors name it.
C4_OneMissingErrorPerField ==
    pc = "returned"
        => /\ result.exc = "none"
           /\ \A field \in RequiredFieldSet :
                 /\ MissingErrors(field) = IF field \in DOMAIN data.d THEN 0 ELSE 1
                 /\ field \notin DOMAIN data.d =>
                       ErrorsNaming(field) = IF field = "download" THEN 2 ELSE 1
           /\ "download" \notin DOMAIN data.d =>
                 Count(result.errors, LAMBDA m : m.kind = "DownloadNotObject") = 1

\* validate_mod_entry has returned for an entry that lacks `download` and
\* three more required fields
C4_Witness ==
    /\ pc = "returned"
    /\ RequiredFieldSet \ DOMAIN data.d = {"name", "version", "homepage", "download"}
    /\ Len(result.errors) = 5

(* ---- C5 ---- *)

\* the names check_duplicates compares: a missing name is the empty string
DupNames ==
    [i \in 1..Len(data.l) |->
        IF "name" \in DOMAIN data.l[i].d THEN data.l[i].d["name"] ELSE Str(<<>>)]

\* the positions (from 1) whose name is the name of an earlier position
Repeated == {j \in 1..Len(data.l) : \E i \in 1..(j - 1) : DupNames[i] = DupNames[j]}

\* the first position (from 1) that has the name of position j
FirstOccurrence(j) ==
    CHOOSE i \in 1..j : /\ DupNames[i] = DupNames[j]
                        /\ \A k \in 1..(i - 1) : DupNames[k] # DupNames[j]

\* C5: check_duplicates returns, in file order, one error for exactly the
\* entries whose name is the name of an earlier entry, each naming the index
\* (from 0) of the first occurrence of the name and the index of the entry;
\* a first occurrence is never flagged, a missing name is the empty string,
\* and the names A, B, A give the one error with indices 0 and 2.
C5_Duplicates ==
    pc = "returned"
        => /\ result.exc = "none"
           /\ result.warnings = <<>>
           /\ Len(result.errors) = Cardinality(Repeated)
           /\ \A k \in 1..Len(result.errors) :
                 LET e == result.errors[k]
                 IN /\ e.kind = "Duplicate"
                    /\ e.index + 1 \in Repeated
                    /\ e.other + 1 = FirstOccurrence(e.index + 1)
                    /\ k > 1 => result.errors[k - 1].index < e.index
           /\ DupNames = <<Str(NAME_A), Str(NAME_B), Str(NAME_A)>>
                 => result.errors = <<Msg("Duplicate", 2, "name", 0)>>

\* check_duplicates has returned for the names A, B, A
C5_Witness ==
    /\ pc = "returned"
    /\ DupNames = <<Str(NAME_A), Str(NAME_B), Str(NAME_A)>>
    /\ result.errors = <<Msg("Duplicate", 2, "name", 0)>>

(* ---- C6 ---- *)

\* the asset name of the entry validate_mod_entry was called on, empty when
\* the entry has no download object or the object no asset
EntryAssetName ==
    LET download == Get(data, "download")
    IN IF download.ty = "dict" /\ "asset" \in DOMAIN download.d
       THEN PyStr(download.d["asset"])
       ELSE <<>>

NonZipErrors == Count(result.errors, LAMBDA m : m.kind = "NonZipNeedsManifest")

\* C6 as stated: the "non-zip release assets require a valid manifest_url"
\* error is returned exactly when the asset name is non-empty, does not end
\* in ".zip" compared with its case, and the entry has no manifest_url.
C6_CaseSensitiveSuffix ==
    pc = "returned"
        => /\ NonZipErrors <= 1
           /\ NonZipErrors = 1 <=> /\ EntryAssetName # <<>>
                                   /\ ~EndsWith(EntryAssetName, DOT_ZIP)
                                   /\ "manifest_url" \notin DOMAIN data.d

\* C6: the "non-zip release assets require a valid manifest_url" error is
\* returned, once, exactly when the asset name is non-empty, its lower-cased
\* form does not end in ".zip", and the entry's manifest_url is absent, empty
\* or null; so Mod.zip and Mod.ZIP pass without a manifest_url and Mod.rar
\* fails.
C6_CaseInsensitiveSuffix ==
    pc = "returned"
        => /\ result.exc = "none"
           /\ NonZipErrors <= 1
           /\ NonZipErrors = 1 <=> /\ EntryAssetName # <<>>
                                   /\ ~EndsWith(Lower(EntryAssetName), DOT_ZIP)
                                   /\ \/ "manifest_url" \notin DOMAIN data.d
                                      \/ data.d["manifest_url"] \in {Str(<<>>), Null}

\* validate_mod_entry has returned without the error for the asset Mod.ZIP
\* of an entry without manifest_url
C6_Witness ==
    /\ pc = "returned"
    /\ EntryAssetName = M_ZIP_UPPER
    /\ "manifest_url" \notin DOMAIN data.d
    /\ NonZipErrors = 0

(* ---- C7 ---- *)

\* C7: in a run of main without the remote-verification flag no request is
\* ever issued, whatever the download types of the entries; every request
\* issued is issued in a run with the flag, for an entry whose download.type
\* is github_release.
C7_RequestsOnlyWhenAsked ==
    /\ ~verify => requests = <<>>
    /\ \A k \in 1..Len(requests) : verify /\ IsGithubEntry(requests[k].index)

\* a run without the flag on a manifest with a github_release entry and a
\* direct one has ended with status 0
C7_Witness ==
    /\ pc = "done"
    /\ ~verify
    /\ exit_status = 0
    /\ IsGithubEntry(1)
    /\ Len(data.d["mods"].l) = 2
    /\ ~IsGithubEntry(2)
    /\ requests = <<>>

(* ---- C8 ---- *)

\* the request is the first of its entry and it failed
FailedFirst(r) == r.which = "first" /\ ~r.ok

\* C8, after the failure: for an entry whose first request failed there is
\* exactly one error and no warning, no other request was issued for it, and
\* verify_downloads is at a later entry.
FirstFetchFailureScoped ==
    \A k \in 1..Len(requests) :
        FailedFirst(requests[k]) =>
            LET i == requests[k].index
            IN /\ Count(remote_errors, LAMBDA m : m.index = i) = 1
               /\ Count(remote_warnings, LAMBDA m : m.index = i) = 0
               /\ Count(requests, LAMBDA r : r.index = i) = 1
               /\ index > i
               /\ pc \in {"verify", "verify_assets", "compare", "report", "done"}

\* C8, at the failure: the step in which the first request of an entry fails
\* appends one error for the entry, of the kind of the request, to the errors
\* of the earlier entries, leaves the warnings as they are, and leaves
\* verify_downloads at the next entry.
FirstFetchFailureStep ==
    (Len(requests') = Len(requests) + 1 /\ FailedFirst(requests'[Len(requests')]))
        => /\ Len(remote_errors') = Len(remote_errors) + 1
           /\ SubSeq(remote_errors', 1, Len(remote_errors)) = remote_errors
           /\ LET e == remote_errors'[Len(remote_errors')]
                  r == requests'[Len(requests')]
              IN /\ e.index = index
                 /\ r.index = index
                 /\ e.kind = IF r.kind = "latest" THEN "FetchLatestFailed"
                             ELSE "FetchTagFailed"
                 /\ r.kind = "latest" <=>
                       Get(data.d["mods"].l[index].d["download"], "latest") = Bool(TRUE)
           /\ remote_warnings' = remote_warnings
           /\ pc = "verify"
           /\ pc' = "verify"
           /\ index' = index + 1

\* C8: when the first request for an entry (for the latest release if
\* download.latest is true, for the release of the tag otherwise) fails,
\* exactly one error is emitted for the entry, no warning is emitted for it,
\* no further request is issued for it, verification goes on with the next
\* entry, and the messages of the earlier entries are unchanged.
C8_FirstFetchFailure ==
    []FirstFetchFailureScoped /\ [][FirstFetchFailureStep]_vars

\* the first request of the first entry failed after which the second entry
\* was verified, with a warning, and verify_downloads is past both
C8_Witness ==
    /\ Len(requests) >= 2
    /\ FailedFirst(requests[1])
    /\ requests[1].index = 1
    /\ requests[2].index = 2
    /\ Len(remote_errors) >= 1
    /\ remote_errors[1].index = 1
    /\ remote_warnings # <<>>
    /\ pc = "verify"
    /\ index = 3

(* ---- C9 ---- *)

\* the download block of the entry validate_mod_entry was called on is a
\* github_release block
IsGithubBlock ==
    /\ Get(data, "download").ty = "dict"
    /\ Get(Get(data, "download"), "type") = Str(GITHUB_RELEASE)

LatestErrors == Count(result.errors, LAMBDA m : m.kind = "LatestNotBoolean")

\* C9: for a github_release download block the "download.latest must be
\* boolean" error is returned when the `latest` key is present with a value
\* that is not a boolean (a number, a string, null), and is not returned when
\* `latest` is absent, true or false.
C9_LatestMustBeBoolean ==
    (pc = "returned" /\ IsGithubBlock)
        => LET download == data.d["download"]
           IN LatestErrors = IF /\ "latest" \in DOMAIN download.d
                                /\ download.d["latest"].ty # "bool"
                             THEN 1 ELSE 0

\* validate_mod_entry has returned without the error for a github_release
\* block whose `latest` is the number 1
C9_Witness ==
    /\ pc = "returned"
    /\ IsGithubBlock
    /\ Get(data.d["download"], "latest") = Num(1)
    /\ LatestErrors = 0

(* ---- C10 ---- *)

\* the staleness warnings verify_downloads holds
StaleWarnings(list) == Count(list, LAMBDA m : m.kind = "Stale")

\* the tag of the latest release obtained, with the entry's tag_prefix
\* (default "v") stripped from its front
StrippedLatestTag ==
    LET download == data.d["mods"].l[index].d["download"]
        prefix   == IF "tag_prefix" \in DOMAIN download.d
                    THEN download.d["tag_prefix"].s ELSE <<"v">>
        payload  == latest_release.payload
        tag      == IF "tag_name" \in DOMAIN payload.d THEN payload.d["tag_name"].s
                    ELSE <<>>
    IN IF Len(tag) >= Len(prefix) /\ SubSeq(tag, 1, Len(prefix)) = prefix
       THEN SubSeq(tag, Len(prefix) + 1, Len(tag))
       ELSE tag

DeclaredVersion == data.d["mods"].l[index].d["version"].s

\* C10 as stated: once the latest release was obtained, the comparison emits
\* the staleness warning exactly when the stripped tag differs from the
\* declared version.
C10_StaleWhenDifferent ==
    [][pc = "compare"
          => (StaleWarnings(remote_warnings') = StaleWarnings(remote_warnings) + 1
                <=> StrippedLatestTag # DeclaredVersion)]_vars

\* C10: once the latest release was obtained (the first request's when
\* `latest` was asked for, a second request's otherwise), the comparison
\* emits one staleness warning exactly when the stripped tag is not empty and
\* differs from the declared version, and none when the two are equal or
\* when the stripped tag is empty (a release without tag_name, a tag that is
\* the prefix).
C10_StaleWhenDifferentAndNotEmpty ==
    [][pc = "compare"
          => /\ StaleWarnings(remote_warnings') \in
                   {StaleWarnings(remote_warnings), StaleWarnings(remote_warnings) + 1}
             /\ StaleWarnings(remote_warnings') = StaleWarnings(remote_warnings) + 1
                   <=> /\ StrippedLatestTag # <<>>
                       /\ StrippedLatestTag # DeclaredVersion]_vars

\* the comparison of an entry with version 2.0.0 and an empty tag_prefix
\* emitted the staleness warning after two successful requests
C10_Witness ==
    /\ pc = "verify"
    /\ index = 2
    /\ Len(requests) = 2
    /\ requests[2].ok
    /\ data.d["mods"].l[1].d["version"] = Str(V2)
    /\ Get(data.d["mods"].l[1].d["download"], "tag_prefix") = Str(<<>>)
    /\ StaleWarnings(remote_warnings) = 1

====
